---- MODULE Spec2Model ----
(***************************************************************************)
(* Model of src/main.py: the SessionCache class (a flat file cache keyed   *)
(* by store identifier), the fixed-attempt retry wrapper, the cached fast  *)
(* path, the nine-step full flow and the /check endpoint handler.          *)
(*                                                                         *)
(* The program is an asyncio application: code between two awaits that     *)
(* suspend (an outbound request, asyncio.sleep) runs without interleaving, *)
(* so every action is one such block.                                      *)
(***************************************************************************)
EXTENDS Integers, Sequences, FiniteSets, TLC

\* ------------------------------------------------------------------ bounds
\* value of time.time() in the initial state (any epoch time >= the window)
StartTime == 2000
\* the clock stops advancing after this many seconds
MaxElapsed == 1800

\* ------------------------------------------------------- program constants
\* freshness window of get_session, in seconds
TTL == 1800
\* attempts and delay request_with_retry configures
ATTEMPTS == 3
DELAY == 1
\* the store the flow works on, and the default store of get_session
STORE_ID == 1021
\* requests of the full flow
LAST_REQ == 9
\* the request after which the session record is saved
SAVE_AFTER_REQ == 8

\* ------------------------------------------------------------ input sets
Invocations == {1, 2}
\* store identifiers callers of SessionCache pass
StoreIds == {STORE_ID, STORE_ID + 1}
\* transaction identifiers a session record carries
TxIds == {"t1", "t2"}
\* clock advances between two steps: to the last fresh second and to expiry
Deltas == {TTL - 1, TTL}

VARIABLES
    now,             \* time.time()
    file,            \* contents of session_cache.json
    sessions,        \* sessions[i]: SessionCache.sessions of i's instance
    cached_session,  \* cached_session[i]: value of i's latest get_session
    call,            \* call[i]: the SessionCache method i called last
    inv,             \* inv[i]: the locals of endpoint invocation i
    wrapper          \* the locals of one call of a retry_request wrapper

vars == <<now, file, sessions, cached_session, call, inv, wrapper>>

\* ------------------------------------------------------------ SessionCache
None == [none |-> TRUE]
\* an invocation that has not constructed a SessionCache
NoInstance == [noinstance |-> TRUE]
EmptyMap == <<>>

Absent == [kind |-> "absent"]
Corrupt == [kind |-> "corrupt"]
Json(doc) == [kind |-> "json", doc |-> doc]

\* dict.get(key, default)
Get(d, key, default) == IF key \in DOMAIN d THEN d[key] ELSE default

\* d[key] = value
SetItem(d, key, value) ==
    [k \in DOMAIN d \cup {key} |-> IF k = key THEN value ELSE d[k]]

\* del d[key]
DelItem(d, key) == [k \in DOMAIN d \ {key} |-> d[k]]

\* str(store_id)
StoreKey(store_id) == ToString(store_id)

\* variant: a failed read is not noticed
LoadCacheMut(f, r) == IF f.kind = "json" THEN f.doc ELSE EmptyMap
\* load_cache: r says whether open/read succeeds
LoadCache(f, r) ==
    IF f.kind = "absent" THEN EmptyMap
    ELSE IF r = "ok" /\ f.kind = "json" THEN f.doc
    ELSE EmptyMap

\* the line load_cache prints
LoadLog(f, r) ==
    IF f.kind = "absent" THEN ""
    ELSE IF r = "ok" /\ f.kind = "json" THEN "Loaded cached sessions"
    ELSE "Error loading cache"

\* variant: the file is merged, records already in it win
SaveCacheMut(f, map, w) ==
    IF w = "ok" /\ f.kind = "json"
    THEN Json([k \in DOMAIN f.doc \cup DOMAIN map |->
                  IF k \in DOMAIN f.doc THEN f.doc[k] ELSE map[k]])
    ELSE IF w = "ok" THEN Json(map) ELSE f
\* save_cache: w is the outcome of open(.., "w") and json.dump
SaveCache(f, map, w) ==
    CASE w = "ok" -> Json(map)
      [] w = "open_fails" -> f
      [] w = "dump_fails" -> Corrupt

\* variant: the boundary second counts as fresh
FreshMut(session, t) == t - Get(session, "timestamp", 0) <= TTL
\* the freshness test of get_session
Fresh(session, t) == t - Get(session, "timestamp", 0) < TTL

\* variant: a record without timestamp counts as saved now
GetSessionMut(map, store_id, t) ==
    LET store_key == StoreKey(store_id) IN
    IF store_key \in DOMAIN map
    THEN IF "timestamp" \notin DOMAIN map[store_key] \/ Fresh(map[store_key], t)
         THEN [ret |-> map[store_key], map |-> map,
               log |-> "Using cached session"]
         ELSE [ret |-> None, map |-> DelItem(map, store_key),
               log |-> "Cached session expired"]
    ELSE [ret |-> None, map |-> map, log |-> ""]
\* get_session: the returned value, the map afterwards and the line printed
GetSession(map, store_id, t) ==
    LET store_key == StoreKey(store_id) IN
    IF store_key \in DOMAIN map
    THEN IF Fresh(map[store_key], t)
         THEN [ret |-> map[store_key], map |-> map,
               log |-> "Using cached session"]
         ELSE [ret |-> None, map |-> DelItem(map, store_key),
               log |-> "Cached session expired"]
    ELSE [ret |-> None, map |-> map, log |-> ""]

\* variant: the map is replaced by the one record
SaveSessionMut(map, store_id, session_data, t) ==
    SetItem(EmptyMap, StoreKey(store_id), SetItem(session_data, "timestamp", t))
\* save_session up to the call of save_cache: the map afterwards
SaveSession(map, store_id, session_data, t) ==
    SetItem(map, StoreKey(store_id), SetItem(session_data, "timestamp", t))

\* ------------------------------------------------------------------ clock
Tick ==
    /\ \E d \in Deltas :
         /\ now + d <= StartTime + MaxElapsed
         /\ now' = now + d
    /\ UNCHANGED <<file, sessions, cached_session, call, inv, wrapper>>

\* ------------------------------------------- SessionCache used on its own
SessionData == {[transaction_id |-> x] : x \in TxIds}

\* files the program finds at start
InitFiles ==
    {Absent, Corrupt, Json(EmptyMap)}
    \cup {Json(SetItem(EmptyMap, StoreKey(s), SetItem(d, "timestamp", t))) :
            s \in StoreIds, d \in SessionData, t \in {StartTime - TTL, StartTime}}
    \cup {Json(SetItem(EmptyMap, StoreKey(STORE_ID), d)) : d \in SessionData}

NoCall == [op |-> "none"]

\* no wrapper call is modelled on its own
NoWrapper == [pc |-> "none"]

\* the locals of an invocation that has not started
IdleLocals ==
    [pc |-> "idle", phase |-> "none", req_num |-> 0, attempt |-> 0,
     invoked |-> 0, slept |-> <<>>, clients |-> {}, flows |-> 0,
     outstanding |-> {}, last |-> [kind |-> "none"], fasts |-> 0, load_log |-> "",
     use_cache |-> TRUE, cc |-> <<>>, transaction_id |-> "", result |-> None,
     response |-> None]

CacheInit ==
    /\ now = StartTime
    /\ file \in InitFiles
    /\ sessions = [i \in Invocations |-> NoInstance]
    /\ cached_session = [i \in Invocations |-> None]
    /\ call = [i \in Invocations |-> NoCall]
    /\ inv = [i \in Invocations |-> IdleLocals]
    /\ wrapper = NoWrapper

\* SessionCache()
Construct(i) ==
    /\ \E r \in {"ok", "fails"} :
         /\ sessions' = [sessions EXCEPT ![i] = LoadCache(file, r)]
         /\ call' = [call EXCEPT ![i] = [op |-> "init", read |-> r]]
    /\ UNCHANGED <<now, file, cached_session, inv, wrapper>>

\* variant: get_session saves the map after it looked the record up
CallGetSessionMut(i) ==
    /\ sessions[i] # NoInstance
    /\ \E s \in StoreIds :
         LET g == GetSession(sessions[i], s, now) IN
         /\ sessions' = [sessions EXCEPT ![i] = g.map]
         /\ cached_session' = [cached_session EXCEPT ![i] = g.ret]
         /\ call' = [call EXCEPT ![i] = [op |-> "get", store |-> s, log |-> g.log]]
         /\ file' = SaveCache(file, g.map, "ok")
    /\ UNCHANGED <<now, inv, wrapper>>
\* session_cache.get_session(store_id)
CallGetSession(i) ==
    /\ sessions[i] # NoInstance
    /\ \E s \in StoreIds :
         LET g == GetSession(sessions[i], s, now) IN
         /\ sessions' = [sessions EXCEPT ![i] = g.map]
         /\ cached_session' = [cached_session EXCEPT ![i] = g.ret]
         /\ call' = [call EXCEPT ![i] = [op |-> "get", store |-> s, log |-> g.log]]
    /\ UNCHANGED <<now, file, inv, wrapper>>

\* session_cache.save_session(store_id, session_data)
CallSaveSession(i) ==
    /\ sessions[i] # NoInstance
    /\ \E s \in StoreIds, d \in SessionData, w \in {"ok", "open_fails", "dump_fails"} :
         LET map == SaveSession(sessions[i], s, d, now) IN
         /\ sessions' = [sessions EXCEPT ![i] = map]
         /\ file' = SaveCache(file, map, w)
         /\ call' = [call EXCEPT ![i] =
                        [op |-> "save", store |-> s, data |-> d, write |-> w]]
    /\ UNCHANGED <<now, cached_session, inv, wrapper>>

\* the caller that holds the SessionCache instance; constructing again
\* replaces it by a new instance
Callers == {1}

CacheNext ==
    \/ Tick
    \/ \E i \in Callers : Construct(i)
    \/ \E i \in Callers : CallGetSession(i)
    \/ \E i \in Callers : CallSaveSession(i)

CacheSpec == CacheInit /\ [][CacheNext]_vars

\* ------------------------------------------------------------- parse_card
Digits == {"0", "1", "2", "3", "4", "5", "6", "7", "8", "9"}

\* re.findall(r"\d+", card): the maximal runs of digits, left to right
RECURSIVE FindAll(_)
FindAll(card) ==
    IF card = <<>> THEN <<>>
    ELSE IF Head(card) \notin Digits THEN FindAll(Tail(card))
    ELSE LET rest == FindAll(Tail(card)) IN
         IF Len(card) > 1 /\ card[2] \in Digits
         THEN <<(<<Head(card)>> \o Head(rest))>> \o Tail(rest)
         ELSE <<(<<Head(card)>>)>> \o rest

\* parse_card: unpacking the first four groups raises ValueError when there
\* are fewer than four
ParseCard(card) ==
    LET groups == FindAll(card) IN
    IF Len(groups) >= 4
    THEN [ok |-> TRUE, fields |-> SubSeq(groups, 1, 4)]
    ELSE [ok |-> FALSE, exc |-> "ValueError"]

\* check_card line 849: not cc or "|" not in cc
InvalidFormat(cc) == cc = <<>> \/ ~(\E k \in DOMAIN cc : cc[k] = "|")

\* query strings the endpoint receives
CardInputs ==
    { <<>>,
      <<"4", "1">>,
      <<"4", " ", "1", " ", "2", " ", "3">>,
      <<"|">>,
      <<"4", "|", "1", "2", "|", "x">>,
      <<"4", "1", "|", "1", "|", "2", "6", "|", "3">> }

\* ---------------------------------------------------- frames of one block
\* everything a block of invocation i reads and writes
Frame(i) ==
    [loc |-> inv[i], map |-> sessions[i], cached |-> cached_session[i],
     call |-> call[i], file |-> file]

Commit(i, F) ==
    /\ inv' = [inv EXCEPT ![i] = F.loc]
    /\ sessions' = [sessions EXCEPT ![i] = F.map]
    /\ cached_session' = [cached_session EXCEPT ![i] = F.cached]
    /\ call' = [call EXCEPT ![i] = F.call]
    /\ file' = F.file

\* truth value of a dict or None
Truthy(v) == v # None /\ DOMAIN v # {}

\* async with httpx.AsyncClient(...) as client: enter and exit
OpenClient(F, c) == [F EXCEPT !.loc.clients = @ \cup {c}]
\* variant: the fast-path client is left open
CloseClientMut(F, c) == IF c = "fast" THEN F ELSE [F EXCEPT !.loc.clients = @ \ {c}]
CloseClient(F, c) == [F EXCEPT !.loc.clients = @ \ {c}]

\* request_with_retry called: the wrapper's loop starts and the first
\* attempt is in flight
IssueRequest(F, phase, r) ==
    [F EXCEPT !.loc.pc = "request", !.loc.phase = phase, !.loc.req_num = r,
              !.loc.attempt = 1, !.loc.invoked = 1, !.loc.slept = <<>>,
              !.loc.outstanding = @ \cup {<<phase, r, 1>>}]

\* the wrapper returned or raised: its locals are gone
LeaveRetry(F) ==
    [F EXCEPT !.loc.attempt = 0, !.loc.invoked = 0, !.loc.slept = <<>>]

\* ------------------------------------------------------------- check_card
\* Each operator below is a stretch of code run inside one block; its value
\* is the set of frames the stretch can end in (one per outcome of the file
\* reads and writes it makes).

\* outcomes of open/read in load_cache and of open/json.dump in save_cache
ReadOutcomes == {"ok", "fails"}
WriteOutcomes == {"ok", "open_fails", "dump_fails"}

\* variant: the ValueError clause is missing
HandleExceptionMut(exc) == [code |-> 500]
\* the except clauses of check_card, lines 882-892
HandleException(exc) ==
    IF exc = "ValueError" THEN [code |-> 400] ELSE [code |-> 500]

Respond(F, response) ==
    [F EXCEPT !.loc.pc = "done", !.loc.phase = "none", !.loc.response = response]

\* lines 864-880
ResultResponse(result) ==
    IF result # None
    THEN [code |-> 200, success |-> TRUE, status |-> result.status,
          message |-> result.message]
    ELSE [code |-> 500, success |-> FALSE, status |-> "error",
          message |-> [text |-> "Failed to process card"]]

\* ------------------------------------------------------------ worldpay_auth
\* entry of worldpay_auth up to the first request
WorldpayAuth(F) ==
    IssueRequest(OpenClient([F EXCEPT !.loc.flows = @ + 1], "full"), "full", 1)

\* entry of verify_card_with_cached_session up to its request
VerifyCardWithCachedSession(F) ==
    IssueRequest(OpenClient([F EXCEPT !.loc.fasts = @ + 1], "fast"), "fast", 0)

\* ------------------------------------------------- worldpay_auth_with_cache
\* variant: get_session is called whatever use_cache is
AuthFromCacheMut(F, uc, r, t) ==
    LET loaded == [F EXCEPT !.loc.use_cache = uc,
                            !.loc.load_log = LoadLog(F.file, r),
                            !.map = LoadCache(F.file, r),
                            !.call = [op |-> "init", read |-> r]]
        g == GetSession(loaded.map, STORE_ID, t)
        got == [loaded EXCEPT !.map = g.map, !.cached = g.ret,
                              !.call = [op |-> "get", store |-> STORE_ID,
                                        log |-> g.log]]
    IN IF Truthy(got.cached)
       THEN VerifyCardWithCachedSession(got)
       ELSE WorldpayAuth(got)
\* lines 116-126 up to the first request, for one outcome of the file read
AuthFromCache(F, uc, r, t) ==
    LET loaded == [F EXCEPT !.loc.use_cache = uc,
                            !.loc.load_log = LoadLog(F.file, r),
                            !.map = LoadCache(F.file, r),
                            !.call = [op |-> "init", read |-> r]]
        g == GetSession(loaded.map, STORE_ID, t)
        got == IF uc
               THEN [loaded EXCEPT !.map = g.map, !.cached = g.ret,
                                   !.call = [op |-> "get", store |-> STORE_ID,
                                             log |-> g.log]]
               ELSE [loaded EXCEPT !.cached = None]
    IN IF Truthy(got.cached)
       THEN VerifyCardWithCachedSession(got)
       ELSE WorldpayAuth(got)

\* lines 115-126 up to the first request; ValueError leaves through
\* check_card's handler
WorldpayAuthWithCache(F, cc, uc, t) ==
    IF ~ParseCard(cc).ok
    THEN {Respond(F, HandleException(ParseCard(cc).exc))}
    ELSE {AuthFromCache(F, uc, r, t) : r \in ReadOutcomes}

\* check_card from its entry to the first await
CheckCard(F, cc, t) ==
    LET F1 == [F EXCEPT !.loc.cc = cc] IN
    IF InvalidFormat(cc)
    THEN {Respond(F1, HandleException("HTTPException"))}
    ELSE WorldpayAuthWithCache(F1, cc, TRUE, t)

\* variant: a flow that ended with an error status is run again
CheckCardResultMut(F, result, t) ==
    LET F1 == [F EXCEPT !.loc.result = result] IN
    IF result # None /\ result.status = "error" /\ F.loc.flows < 2
    THEN {WorldpayAuth(F1)}
    ELSE {Respond(F1, ResultResponse(result))}
\* check_card after worldpay_auth_with_cache returned, lines 860-880
CheckCardResult(F, result, t) ==
    LET F1 == [F EXCEPT !.loc.result = result] IN
    IF result = None /\ F.loc.use_cache
    THEN WorldpayAuthWithCache(F1, F.loc.cc, FALSE, t)
    ELSE {Respond(F1, ResultResponse(result))}

\* ---------------------------------------------------- outbound responses
Result(status, message) == [status |-> status, message |-> message]

\* lines 198-210 and 817-829
Classify(body) ==
    CASE body = "cvv2_error" -> Result("approved", [text |-> "CVV2 error text"])
      [] body = "other_error" -> Result("declined", [text |-> "error text"])
      [] OTHER -> Result("approved", [text |-> "Card added successfully."])

\* bodies of a 200 response to request n (0 is the fast path's request)
Bodies(n) ==
    CASE n \in {0, LAST_REQ} -> {"cvv2_error", "other_error", "no_error", "malformed"}
      [] n \in {1, 7, SAVE_AFTER_REQ} -> {"good", "malformed"}
      [] n = 3 -> {"good", "no_slot", "malformed"}
      [] n = 5 -> {"good", "no_customer", "malformed"}
      [] OTHER -> {"good"}

\* the transaction identifier the upstream hands to invocation i
TxFor(i) == IF i = 1 THEN "t1" ELSE "t2"

\* what the underlying client call of invocation i does for request n
Outcomes(i, n) ==
    {[kind |-> "timeout"], [kind |-> "error"], [kind |-> "response", status |-> 500]}
    \cup {[kind |-> "response", status |-> 200, body |-> b,
           tx |-> IF n = 7 THEN TxFor(i) ELSE ""] : b \in Bodies(n)}

\* variant: the wrapper is left with its default exceptions=(Exception,)
RetryableMut(o) == o.kind \in {"timeout", "error"}
\* exceptions retry_request catches for request_with_retry
Retryable(o) == o.kind = "timeout"

\* ------------------------------------------ full flow after a request
\* variant: worldpay_auth returns None where it returns an error pair
FullReturnMut(F, result, t) ==
    CheckCardResult(CloseClient(LeaveRetry(F), "full"),
                    IF result.status = "error" THEN None ELSE result, t)
\* worldpay_auth returned result: the client is closed and check_card goes on
FullReturn(F, result, t) ==
    CheckCardResult(CloseClient(LeaveRetry(F), "full"), result, t)

\* variant: the session record is not saved
SaveAfterReq8Mut(F, t, w) == F
\* lines 753-764, for one outcome of the file write
SaveAfterReq8(F, t, w) ==
    LET session_data == [transaction_id |-> F.loc.transaction_id]
        map == SaveSession(F.map, STORE_ID, session_data, t) IN
    [F EXCEPT !.map = map, !.file = SaveCache(F.file, map, w),
              !.call = [op |-> "save", store |-> STORE_ID,
                        data |-> session_data, write |-> w]]

\* the code between the 200 check of request n and the next request
FullAfter200(F, o, t) ==
    LET n == F.loc.req_num IN
    CASE o.body = "malformed" ->
           FullReturn(F, Result("error", [text |-> "exception", kind |-> "parse"]), t)
      [] o.body = "no_slot" ->
           FullReturn(F, Result("error", [text |-> "No open timeslots available"]), t)
      [] o.body = "no_customer" ->
           FullReturn(F, Result("error", [text |-> "CustomerId not found"]), t)
      [] OTHER ->
           IF n = LAST_REQ THEN FullReturn(F, Classify(o.body), t)
           ELSE IF n = SAVE_AFTER_REQ
                THEN {IssueRequest(SaveAfterReq8(F, t, w), "full", n + 1) :
                        w \in WriteOutcomes}
           ELSE IF n = 7
                THEN {IssueRequest([F EXCEPT !.loc.transaction_id = o.tx], "full", n + 1)}
           ELSE {IssueRequest(F, "full", n + 1)}

\* -------------------------------------------- fast path after the request
\* variant: a failed fast path is answered as an error
FastReturnMut(F, result, t) ==
    CheckCardResult(CloseClient(LeaveRetry(F), "fast"),
                    IF result # None THEN result
                    ELSE Result("error", [text |-> "cached session failed"]), t)
\* verify_card_with_cached_session returned result to
\* worldpay_auth_with_cache, lines 120-126
FastReturn(F, result, t) ==
    LET closed == CloseClient(LeaveRetry(F), "fast") IN
    IF result # None
    THEN CheckCardResult(closed, result, t)
    ELSE {WorldpayAuth(closed)}

\* variant: a cached session whose use failed is removed from the cache
FastAfterResponseMut(F, o, t) ==
    LET map == DelItem(F.map, StoreKey(STORE_ID))
        dropped == [F EXCEPT !.map = map, !.file = SaveCache(F.file, map, "ok")]
    IN IF o.status # 200 THEN FastReturn(dropped, None, t)
       ELSE IF o.body = "malformed" THEN FastReturn(dropped, None, t)
       ELSE FastReturn(F, Classify(o.body), t)
\* lines 193-210
FastAfterResponse(F, o, t) ==
    IF o.status # 200 THEN FastReturn(F, None, t)
    ELSE IF o.body = "malformed" THEN FastReturn(F, None, t)
    ELSE FastReturn(F, Classify(o.body), t)

\* ------------------------------------------------------------ retry_request
\* variant: the loop also sleeps after the last attempt
RetryDecisionMut(attempt, attempts, o) ==
    IF o.kind = "response" THEN "return"
    ELSE IF o.kind # "timeout" THEN "raise"
    ELSE IF attempt <= attempts THEN "sleep"
    ELSE "raise"
\* what the wrapper does with the outcome of attempt number attempt:
\* return the result, sleep and loop, or leave the loop and raise
RetryDecision(attempt, attempts, o) ==
    IF o.kind = "response" THEN "return"
    ELSE IF ~Retryable(o) THEN "raise"
    ELSE IF attempt < attempts THEN "sleep"
    ELSE "raise"

\* variant: worldpay_auth does not catch the exception
RaisedMut(F, o, t) ==
    IF F.loc.phase = "fast" THEN FastReturn(F, None, t)
    ELSE {Respond(CloseClient(LeaveRetry(F), "full"), HandleException("Exception"))}
\* the except clauses of the two flows, lines 212-214 and 831-833
Raised(F, o, t) ==
    IF F.loc.phase = "fast" THEN FastReturn(F, None, t)
    ELSE FullReturn(F, Result("error", [text |-> "exception", kind |-> o.kind]), t)

\* variant: the full flow goes on after a non-200 response
ReturnedMut(F, o, t) ==
    IF F.loc.phase = "fast" THEN FastAfterResponse(F, o, t)
    ELSE IF o.status # 200
         THEN IF F.loc.req_num < LAST_REQ
              THEN {IssueRequest(F, "full", F.loc.req_num + 1)}
              ELSE FullReturn(F, Result("error", [text |-> "Request failed",
                                                  req |-> F.loc.req_num]), t)
         ELSE FullAfter200(F, o, t)
\* the 200 checks of the two flows
Returned(F, o, t) ==
    IF F.loc.phase = "fast" THEN FastAfterResponse(F, o, t)
    ELSE IF o.status # 200
         THEN FullReturn(F, Result("error", [text |-> "Request failed",
                                             req |-> F.loc.req_num]), t)
         ELSE FullAfter200(F, o, t)

\* variant: the attempt is not awaited
CompletedMut(F, o) == [F EXCEPT !.loc.last = o]
\* await func(...) is over: the attempt in flight returned or raised o
Completed(F, o) ==
    [F EXCEPT !.loc.outstanding =
                  @ \ {<<F.loc.phase, F.loc.req_num, F.loc.attempt>>},
              !.loc.last = o]

\* the block that runs when the request in flight returns or raises
AfterAttempt(F, o, t) ==
    LET d == RetryDecision(F.loc.attempt, ATTEMPTS, o)
        C == Completed(F, o) IN
    CASE d = "sleep" -> {[C EXCEPT !.loc.pc = "sleep", !.loc.slept = Append(@, DELAY)]}
      [] d = "raise" -> Raised(C, o, t)
      [] d = "return" -> Returned(C, o, t)

\* asyncio.sleep(delay) is over: the loop makes the next attempt
AfterSleep(F) ==
    [F EXCEPT !.loc.pc = "request", !.loc.attempt = @ + 1, !.loc.invoked = @ + 1,
              !.loc.outstanding =
                  @ \cup {<<F.loc.phase, F.loc.req_num, F.loc.attempt + 1>>}]

\* ------------------------------------------------------------------ actions
\* GET /check?cc=...
Arrive(i) ==
    /\ inv[i].pc = "idle"
    /\ \E cc \in CardInputs : \E F \in CheckCard(Frame(i), cc, now) : Commit(i, F)
    /\ UNCHANGED <<now, wrapper>>

\* the request in flight returns or raises
RequestDone(i) ==
    /\ inv[i].pc = "request"
    /\ \E o \in Outcomes(i, inv[i].req_num) :
         \E F \in AfterAttempt(Frame(i), o, now) : Commit(i, F)
    /\ UNCHANGED <<now, wrapper>>

\* the delay between two attempts is over
Wake(i) ==
    /\ inv[i].pc = "sleep"
    /\ Commit(i, AfterSleep(Frame(i)))
    /\ UNCHANGED <<now, wrapper>>

\* files the endpoint finds at start
FlowInitFiles ==
    {Absent, Corrupt,
     Json(SetItem(EmptyMap, StoreKey(STORE_ID),
                  [transaction_id |-> "t0", timestamp |-> StartTime]))}

Init ==
    /\ now = StartTime
    /\ file \in FlowInitFiles
    /\ sessions = [i \in Invocations |-> NoInstance]
    /\ cached_session = [i \in Invocations |-> None]
    /\ call = [i \in Invocations |-> NoCall]
    /\ inv = [i \in Invocations |-> IdleLocals]
    /\ wrapper = NoWrapper

Next ==
    \/ Tick
    \/ \E i \in Invocations : Arrive(i)
    \/ \E i \in Invocations : RequestDone(i)
    \/ \E i \in Invocations : Wake(i)

Spec == Init /\ [][Next]_vars

\* ------------------------- worldpay_auth_with_cache with either use_cache
\* worldpay_auth_with_cache(cc, use_cache) called with either value of
\* use_cache, up to its first await
CallAuth(i) ==
    /\ inv[i].pc = "idle"
    /\ \E cc \in CardInputs, uc \in BOOLEAN :
         \E F \in WorldpayAuthWithCache([Frame(i) EXCEPT !.loc.cc = cc], cc, uc, now) :
             Commit(i, F)
    /\ UNCHANGED <<now, wrapper>>

AuthNext ==
    \/ Tick
    \/ \E i \in Callers : CallAuth(i)
    \/ \E i \in Callers : RequestDone(i)
    \/ \E i \in Callers : Wake(i)

AuthSpec == Init /\ [][AuthNext]_vars

\* ---------------------------------------- retry_request used on its own
\* largest attempts argument tried
MaxAttempts == 3

\* the exceptions arguments in use: the default (Exception,) and the tuple
\* request_with_retry passes
ExceptionsArgs == {{"timeout", "error"}, {"timeout"}}

\* what one call of func does at attempt number attempt: a result or an
\* exception instance, each told apart by the attempt it came from
FuncOutcomes(attempt) ==
    {[kind |-> k, id |-> attempt] : k \in {"response", "timeout", "error"}}

\* variant: the loop stops one attempt early
WrapperDecisionMut(attempt, attempts, exceptions, o) ==
    IF o.kind = "response" THEN "return"
    ELSE IF o.kind \notin exceptions THEN "propagate"
    ELSE IF attempt + 1 < attempts THEN "sleep"
    ELSE "raise"
\* lines 87-95 for any attempts and exceptions: what the wrapper does with
\* the outcome of attempt number attempt
WrapperDecision(attempt, attempts, exceptions, o) ==
    IF o.kind = "response" THEN "return"
    ELSE IF o.kind \notin exceptions THEN "propagate"
    ELSE IF attempt < attempts THEN "sleep"
    ELSE "raise"

RetryInit ==
    /\ now = StartTime
    /\ file = Absent
    /\ sessions = [i \in Invocations |-> NoInstance]
    /\ cached_session = [i \in Invocations |-> None]
    /\ call = [i \in Invocations |-> NoCall]
    /\ inv = [i \in Invocations |-> IdleLocals]
    /\ wrapper \in
         {[pc |-> "start", attempts |-> n, delay |-> d, exceptions |-> e,
           attempt |-> 0, invoked |-> 0, slept |-> <<>>,
           last_exception |-> [classes |-> e], ret |-> None, raised |-> None] :
            n \in -1..MaxAttempts, d \in {DELAY, 2}, e \in ExceptionsArgs}

\* raise v, line 95: an exception instance comes out as it is, any other
\* operand makes the statement itself fail with a TypeError
Raise(v) ==
    IF "classes" \in DOMAIN v THEN [kind |-> "TypeError", operand |-> v] ELSE v

\* variant: the loop body runs once before attempts is looked at
WrapperCallMut ==
    /\ wrapper.pc = "start"
    /\ wrapper' = [wrapper EXCEPT !.pc = "await", !.attempt = 1, !.invoked = 1]
    /\ UNCHANGED <<now, file, sessions, cached_session, call, inv>>
\* wrapper(*args) is called: line 86 and the first turn of the loop, or the
\* final raise when range(1, attempts + 1) is empty
WrapperCall ==
    /\ wrapper.pc = "start"
    /\ wrapper' = IF wrapper.attempts >= 1
                  THEN [wrapper EXCEPT !.pc = "await", !.attempt = 1, !.invoked = 1]
                  ELSE [wrapper EXCEPT !.pc = "raised",
                                       !.raised = Raise(wrapper.last_exception)]
    /\ UNCHANGED <<now, file, sessions, cached_session, call, inv>>

\* await func(...) returns or raises
WrapperAttemptDone ==
    /\ wrapper.pc = "await"
    /\ \E o \in FuncOutcomes(wrapper.attempt) :
         LET d == WrapperDecision(wrapper.attempt, wrapper.attempts,
                                  wrapper.exceptions, o) IN
         wrapper' =
           CASE d = "return" -> [wrapper EXCEPT !.pc = "returned", !.ret = o]
             [] d = "propagate" -> [wrapper EXCEPT !.pc = "raised", !.raised = o]
             [] d = "sleep" ->
                  [wrapper EXCEPT !.pc = "sleep", !.last_exception = o,
                                  !.slept = Append(@, wrapper.delay)]
             [] d = "raise" ->
                  [wrapper EXCEPT !.pc = "raised", !.last_exception = o,
                                  !.raised = Raise(o)]
    /\ UNCHANGED <<now, file, sessions, cached_session, call, inv>>

\* asyncio.sleep(delay) is over
WrapperWake ==
    /\ wrapper.pc = "sleep"
    /\ wrapper' = [wrapper EXCEPT !.pc = "await", !.attempt = @ + 1,
                                  !.invoked = @ + 1]
    /\ UNCHANGED <<now, file, sessions, cached_session, call, inv>>

RetryNext == WrapperCall \/ WrapperAttemptDone \/ WrapperWake

RetrySpec == RetryInit /\ [][RetryNext]_vars

\* ================================================================== claims
\* age of a record at time t, a record without timestamp counting as saved
\* at time 0
Age(session, t) == t - (IF "timestamp" \in DOMAIN session THEN session.timestamp ELSE 0)

\* this step is a call of method op by i
CallStep(i, op) ==
    /\ call'[i].op = op
    /\ <<call[i], sessions[i], cached_session[i]>> #
           <<call'[i], sessions'[i], cached_session'[i]>>

\* C1: get_session returns a record only when its age is below 1800
\* seconds; a record of age 1800 or more yields None and is no longer in the
\* instance's map afterwards.
C1_FreshOnly ==
    [][\A i \in Invocations : CallStep(i, "get") =>
         LET key == StoreKey(call'[i].store) IN
         /\ cached_session'[i] # None =>
              /\ key \in DOMAIN sessions[i]
              /\ cached_session'[i] = sessions[i][key]
              /\ Age(sessions[i][key], now) < 1800
         /\ (key \in DOMAIN sessions[i] /\ Age(sessions[i][key], now) >= 1800) =>
              /\ cached_session'[i] = None
              /\ key \notin DOMAIN sessions'[i]]_vars

\* a get_session has just discarded an expired record
C1_Witness ==
    \E i \in Invocations :
        /\ call[i].op = "get"
        /\ call[i].log = "Cached session expired"
        /\ cached_session[i] = None
        /\ StoreKey(call[i].store) \notin DOMAIN sessions[i]

\* C8: a failed read or parse of the cache file leaves the new instance with
\* an empty map, a failed write in save_session leaves the new record in the
\* map, and in both cases the call completes.
C8_BestEffort ==
    \A i \in Invocations :
        /\ (call[i].op = "init" /\ file.kind # "absent"
              /\ (call[i].read = "fails" \/ file.kind = "corrupt"))
           => sessions[i] = EmptyMap
        /\ (call[i].op = "save" /\ call[i].write # "ok")
           => /\ sessions[i] # NoInstance
              /\ StoreKey(call[i].store) \in DOMAIN sessions[i]
              /\ sessions[i][StoreKey(call[i].store)].transaction_id
                     = call[i].data.transaction_id
              /\ "timestamp" \in DOMAIN sessions[i][StoreKey(call[i].store)]

\* a read failed on a file that holds records
C8_Witness ==
    \E i \in Invocations :
        /\ call[i].op = "init"
        /\ call[i].read = "fails"
        /\ file.kind = "json"
        /\ DOMAIN file.doc # {}
        /\ sessions[i] = EmptyMap

\* C9: save_session(s, d) stores d with the save time under the key of s and
\* leaves the records of other stores alone, a successful write makes the
\* file hold that map, a new instance loads the file's map, and get_session
\* returns the stored record while it is less than 1800 seconds old.
C9_KeyedRoundTrip ==
    [][\A i \in Invocations :
         /\ CallStep(i, "save") =>
              LET key == StoreKey(call'[i].store) IN
              /\ DOMAIN sessions'[i] = DOMAIN sessions[i] \cup {key}
              /\ sessions'[i][key] =
                     [transaction_id |-> call'[i].data.transaction_id,
                      timestamp |-> now]
              /\ \A k \in DOMAIN sessions[i] \ {key} : sessions'[i][k] = sessions[i][k]
              /\ call'[i].write = "ok" => file' = Json(sessions'[i])
         /\ (CallStep(i, "init") /\ call'[i].read = "ok" /\ file.kind = "json")
              => sessions'[i] = file.doc
         /\ CallStep(i, "get") =>
              LET key == StoreKey(call'[i].store) IN
              (key \in DOMAIN sessions[i] /\ Age(sessions[i][key], now) < 1800)
                 => /\ cached_session'[i] = sessions[i][key]
                    /\ sessions'[i] = sessions[i]]_vars

\* a record saved earlier came back from get_session while a record of
\* another store is in the map
C9_Witness ==
    \E i \in Invocations :
        /\ call[i].op = "get"
        /\ cached_session[i] # None
        /\ "timestamp" \in DOMAIN cached_session[i]
        /\ cached_session[i].timestamp < now
        /\ Cardinality(DOMAIN sessions[i]) = 2

\* ------------------------------------------------------- claims on the flow
\* this step is a block of invocation i
BlockOf(i) == inv'[i] # inv[i]

\* the outcome o is a failure of the request it answers
Failed(o) ==
    \/ o.kind \in {"timeout", "error"}
    \/ o.kind = "response" /\ o.status # 200
    \/ o.kind = "response" /\ o.status = 200
         /\ o.body \in {"malformed", "no_slot", "no_customer"}

\* C2: one call of request_with_retry invokes the underlying request at most
\* 3 times, sleeps 1 second after each failed attempt but the last, and does
\* not sleep after the final attempt.
C2_BoundedRetry ==
    \A i \in Invocations :
        LET l == inv[i] IN
        /\ l.invoked <= 3
        /\ \A k \in DOMAIN l.slept : l.slept[k] = 1
        /\ l.pc = "request" => Len(l.slept) = l.invoked - 1
        /\ l.pc = "sleep" => Len(l.slept) = l.invoked /\ l.invoked < 3

\* the third attempt of a call is in flight after two equal delays
C2_Witness ==
    \E i \in Invocations :
        /\ inv[i].pc = "request"
        /\ inv[i].invoked = 3
        /\ inv[i].slept = <<1, 1>>

\* C3: when the last attempt of a full-flow request fails with a network
\* failure, the flow issues no further request and returns an error result
\* with a message; the endpoint answers normally, so no exception reached
\* the caller of the flow.
C3_NetworkFailureSurfaced ==
    [][\A i \in Invocations :
         (/\ BlockOf(i)
          /\ inv[i].pc = "request" /\ inv[i].phase = "full"
          /\ inv[i].attempt = 3
          /\ inv'[i].last.kind = "timeout")
         => /\ inv'[i].pc = "done"
            /\ inv'[i].outstanding = {}
            /\ inv'[i].req_num = inv[i].req_num
            /\ inv'[i].result # None
            /\ inv'[i].result.status = "error"
            /\ "text" \in DOMAIN inv'[i].result.message
            /\ inv'[i].response.code = 200
            /\ inv'[i].response.status = "error"]_vars

\* a full flow ended at a request before the last one after three timeouts
C3_Witness ==
    \E i \in Invocations :
        /\ inv[i].pc = "done"
        /\ inv[i].flows = 1
        /\ inv[i].last.kind = "timeout"
        /\ inv[i].req_num \in 1..8
        /\ inv[i].result.status = "error"

\* C4: when the fast path on a fresh cached session fails, the same call of
\* worldpay_auth_with_cache starts the full flow, the full flow runs at most
\* once per invocation, its result is the one returned, and a failure of it
\* is answered as an error result.
C4_FallbackOnce ==
    [][\A i \in Invocations :
         /\ (/\ BlockOf(i)
             /\ inv[i].pc = "request" /\ inv[i].phase = "fast"
             /\ inv'[i].pc # "sleep"
             /\ Failed(inv'[i].last))
            => /\ inv[i].flows = 0
               /\ inv'[i].flows = 1
               /\ inv'[i].pc = "request"
               /\ inv'[i].phase = "full"
               /\ inv'[i].req_num = 1
               /\ inv'[i].use_cache
         /\ inv'[i].flows <= 1
         /\ (inv'[i].pc = "done" /\ inv'[i].fasts = 1 /\ inv'[i].flows = 1)
            => /\ inv'[i].result # None
               /\ inv'[i].response.code = 200
               /\ inv'[i].response.status = inv'[i].result.status
               /\ inv'[i].response.message = inv'[i].result.message
               /\ Failed(inv'[i].last) => inv'[i].result.status = "error"]_vars

\* an invocation found a fresh cached session, fell back and its full flow
\* failed
C4_Witness ==
    \E i \in Invocations :
        /\ inv[i].pc = "done"
        /\ cached_session[i] # None
        /\ inv[i].fasts = 1
        /\ inv[i].flows = 1
        /\ Failed(inv[i].last)
        /\ inv[i].result.status = "error"

\* C5: an invocation has at most one outbound request outstanding, and none
\* while it is not waiting for one.
C5_SingleOutstanding ==
    \A i \in Invocations :
        /\ Cardinality(inv[i].outstanding) <= 1
        /\ inv[i].pc # "request" => inv[i].outstanding = {}
        /\ inv[i].pc = "request" =>
             inv[i].outstanding = {<<inv[i].phase, inv[i].req_num, inv[i].attempt>>}

\* a retry attempt is the only outstanding request
C5_Witness ==
    \E i \in Invocations :
        /\ inv[i].pc = "request"
        /\ inv[i].attempt = 2
        /\ inv[i].req_num = 2
        /\ Cardinality(inv[i].outstanding) = 1

\* C6: an invocation has at most one client open, the one of the flow it is
\* in, and none when it has answered.
C6_ClientsClosed ==
    \A i \in Invocations :
        /\ Cardinality(inv[i].clients) <= 1
        /\ inv[i].pc \in {"idle", "done"} => inv[i].clients = {}
        /\ inv[i].pc \in {"request", "sleep"} => inv[i].clients = {inv[i].phase}

\* an invocation that used both flows has answered
C6_Witness ==
    \E i \in Invocations :
        /\ inv[i].pc = "done"
        /\ inv[i].fasts = 1
        /\ inv[i].flows = 1
        /\ inv[i].clients = {}

\* this step is the save of invocation i in its full flow
SaveStep(i) == BlockOf(i) /\ call[i].op # "save" /\ call'[i].op = "save"

\* C7: a save rewrites the whole file from the saving invocation's own map,
\* which it built from the file as it was when the invocation loaded it,
\* whatever the file holds at the time of the save.
C7_WholeFileRewrite ==
    [][\A i \in Invocations :
         SaveStep(i) =>
            /\ sessions'[i] =
                   SetItem(sessions[i], StoreKey(STORE_ID),
                           [transaction_id |-> inv[i].transaction_id,
                            timestamp |-> now])
            /\ call'[i].write = "ok" => file' = Json(sessions'[i])]_vars

\* both invocations missed the cache and ran the full flow, and the record
\* one saved after the other had loaded is gone from the file
C7_Witness ==
    \E i, j \in Invocations :
        LET key == StoreKey(STORE_ID) IN
        /\ i # j
        /\ inv[i].use_cache /\ inv[j].use_cache
        /\ inv[i].fasts = 0 /\ inv[j].fasts = 0
        /\ inv[i].flows = 1 /\ inv[j].flows = 1
        /\ inv[i].load_log # "Error loading cache"
        /\ cached_session[i] = None /\ cached_session[j] = None
        /\ call[i].op = "save" /\ call[i].write = "ok"
        /\ call[j].op = "save" /\ call[j].write = "ok"
        /\ Age(sessions[j][key], now) < 1800
        /\ file = Json(sessions[i])
        /\ file.doc[key] # sessions[j][key]

\* C10: an input without the delimiter is answered with status 400, and
\* neither the cache nor the network is touched for it.
C10_NoDelimiter400 ==
    \A i \in Invocations :
        (inv[i].pc = "done" /\ InvalidFormat(inv[i].cc))
        => /\ inv[i].response.code = 400
           /\ sessions[i] = NoInstance
           /\ call[i] = NoCall
           /\ inv[i].fasts = 0 /\ inv[i].flows = 0

\* C11: an input that has the delimiter but fewer than four digit groups is
\* answered with status 400 before a SessionCache is constructed and before
\* any request is issued.
C11_FewGroups400 ==
    \A i \in Invocations :
        (/\ inv[i].pc = "done"
         /\ ~InvalidFormat(inv[i].cc)
         /\ Len(FindAll(inv[i].cc)) < 4)
        => /\ inv[i].response = [code |-> 400]
           /\ sessions[i] = NoInstance
           /\ call[i] = NoCall
           /\ cached_session[i] = None
           /\ inv[i].fasts = 0 /\ inv[i].flows = 0
           /\ inv[i].clients = {} /\ inv[i].last = [kind |-> "none"]

\* an input with the delimiter and two digit groups was rejected
C11_Witness ==
    \E i \in Invocations :
        /\ inv[i].pc = "done"
        /\ \E k \in DOMAIN inv[i].cc : inv[i].cc[k] = "|"
        /\ Len(FindAll(inv[i].cc)) = 2
        /\ inv[i].response.code = 400
        /\ sessions[i] = NoInstance

\* this step leaves the request of i that was in flight without trying it again
NotRetried(i) ==
    /\ inv'[i].pc # "sleep"
    /\ ~(/\ inv'[i].pc = "request"
         /\ inv'[i].phase = inv[i].phase
         /\ inv'[i].req_num = inv[i].req_num)

\* C12: an exception that is neither a timeout nor a connection error ends
\* the call at the attempt that raised it, without a delay, and reaches the
\* flow's handler; a response is returned whatever its status, and a non-200
\* response is handled by the flow and not retried.
C12_OnlyNetworkRetried ==
    [][\A i \in Invocations :
         (BlockOf(i) /\ inv[i].pc = "request"
            /\ inv'[i].last.kind \in {"error", "response"})
         => /\ NotRetried(i)
            /\ inv'[i].slept = <<>>
            /\ (inv'[i].last.kind = "error" /\ inv[i].phase = "full")
               => /\ inv'[i].pc = "done"
                  /\ inv'[i].result =
                         [status |-> "error",
                          message |-> [text |-> "exception", kind |-> "error"]]
            /\ (inv'[i].last.kind = "response" /\ inv'[i].last.status # 200
                  /\ inv[i].phase = "full")
               => /\ inv'[i].pc = "done"
                  /\ inv'[i].result =
                         [status |-> "error",
                          message |-> [text |-> "Request failed",
                                       req |-> inv[i].req_num]]
            /\ (inv[i].phase = "fast"
                  /\ (inv'[i].last.kind = "error" \/ inv'[i].last.status # 200))
               => /\ inv'[i].pc = "request"
                  /\ inv'[i].phase = "full"
                  /\ inv'[i].req_num = 1
                  /\ inv'[i].attempt = 1]_vars

\* a full flow ended on an exception that is not retried
C12_Witness ==
    \E i \in Invocations :
        /\ inv[i].pc = "done"
        /\ inv[i].flows = 1
        /\ inv[i].last.kind = "error"
        /\ inv[i].result.message = [text |-> "exception", kind |-> "error"]

\* C13: with attempts n >= 1, a call whose k-th attempt is the first to
\* succeed has invoked func exactly k times (k <= n) and returns that
\* attempt's result; a call whose n attempts all raised a caught exception
\* has invoked func exactly n times and raises the n-th attempt's exception.
C13_RetryCounts ==
    (wrapper.pc \in {"returned", "raised"} /\ wrapper.attempts >= 1)
    => /\ wrapper.pc = "returned"
          => /\ wrapper.ret.kind = "response"
             /\ wrapper.ret.id = wrapper.invoked
             /\ wrapper.invoked <= wrapper.attempts
             /\ Len(wrapper.slept) = wrapper.invoked - 1
       /\ (wrapper.pc = "raised" /\ wrapper.raised.kind \in wrapper.exceptions)
          => /\ wrapper.invoked = wrapper.attempts
             /\ Len(wrapper.slept) = wrapper.attempts - 1
             /\ wrapper.raised.id = wrapper.attempts
             /\ wrapper.raised = wrapper.last_exception

\* three attempts all raised a caught exception and the third one's came out
C13_Witness ==
    /\ wrapper.pc = "raised"
    /\ wrapper.attempts = 3
    /\ wrapper.invoked = 3
    /\ wrapper.raised = [kind |-> "timeout", id |-> 3]

\* C14: a full flow starts with request 1, request n + 1 is issued only in
\* the block in which request n returned status 200, no request is issued
\* out of that order, and a non-200 answer to request n ends the flow at
\* once with an error result that names n.
C14_StepsInOrder ==
    [][\A i \in Invocations :
         BlockOf(i) =>
            /\ inv'[i].flows # inv[i].flows
               => /\ inv'[i].pc = "request"
                  /\ inv'[i].phase = "full"
                  /\ inv'[i].req_num = 1
            /\ inv'[i].phase = "full" => inv'[i].req_num \in 1..9
            /\ (inv[i].phase = "full" /\ inv'[i].req_num # inv[i].req_num)
               => /\ inv[i].pc = "request"
                  /\ inv'[i].pc = "request"
                  /\ inv'[i].phase = "full"
                  /\ inv'[i].req_num = inv[i].req_num + 1
                  /\ inv'[i].last.kind = "response"
                  /\ inv'[i].last.status = 200
            /\ (inv[i].phase = "full" /\ inv[i].pc = "request"
                  /\ inv'[i].last.kind = "response" /\ inv'[i].last.status # 200)
               => /\ inv'[i].pc = "done"
                  /\ inv'[i].outstanding = {}
                  /\ inv'[i].req_num = inv[i].req_num
                  /\ inv'[i].result =
                         [status |-> "error",
                          message |-> [text |-> "Request failed",
                                       req |-> inv[i].req_num]]]_vars

\* a full flow ended at request 5 with the error that names request 5
C14_Witness ==
    \E i \in Invocations :
        /\ inv[i].pc = "done"
        /\ inv[i].req_num = 5
        /\ inv[i].last = [kind |-> "response", status |-> 500]
        /\ inv[i].result.message = [text |-> "Request failed", req |-> 5]

\* C15: the full flow saves its session record in the block in which
\* request 8 returned 200 and before request 9 is issued, and in no other
\* block: every other block of the flow leaves the invocation's map and the
\* file as they are, so a flow that ends at a request up to 8 has not saved
\* and a flow that fails at request 9 keeps the record it saved.
C15_SavedOnceBeforeLast ==
    [][\A i \in Invocations :
         LET key == StoreKey(STORE_ID) IN
         /\ SaveStep(i)
            => /\ inv[i].phase = "full" /\ inv[i].pc = "request"
               /\ inv[i].req_num = 8
               /\ inv'[i].last.kind = "response" /\ inv'[i].last.status = 200
               /\ inv'[i].pc = "request" /\ inv'[i].req_num = 9
               /\ sessions'[i][key] =
                      [transaction_id |-> inv[i].transaction_id, timestamp |-> now]
         /\ (BlockOf(i) /\ inv[i].phase = "full" /\ ~SaveStep(i))
            => sessions'[i] = sessions[i] /\ file' = file
         /\ (BlockOf(i) /\ inv'[i].phase = "full" /\ inv'[i].req_num = 9)
            => call'[i].op = "save" /\ key \in DOMAIN sessions'[i]
         /\ (BlockOf(i) /\ inv'[i].pc = "done" /\ inv'[i].flows = 1)
            => IF inv'[i].req_num = 9
               THEN /\ call'[i].op = "save"
                    /\ sessions'[i][key].transaction_id = inv'[i].transaction_id
               ELSE call'[i].op # "save"]_vars

\* request 9 failed and the record saved before it is in the map and the file
C15_Witness ==
    \E i \in Invocations :
        LET key == StoreKey(STORE_ID) IN
        /\ inv[i].pc = "done"
        /\ inv[i].req_num = 9
        /\ Failed(inv[i].last)
        /\ call[i].op = "save"
        /\ file = Json(sessions[i])
        /\ file.doc[key].transaction_id = inv[i].transaction_id

\* attempts the invocation with locals l may still issue: the rest of the
\* request it is in and 3 for each request that can follow it
AttemptsLeft(l) ==
    CASE l.pc = "idle" -> ATTEMPTS + ATTEMPTS * LAST_REQ
      [] l.pc = "done" -> 0
      [] l.phase = "fast" -> (ATTEMPTS - l.attempt) + ATTEMPTS * LAST_REQ
      [] OTHER -> (ATTEMPTS - l.attempt) + ATTEMPTS * (LAST_REQ - l.req_num)

\* blocks the invocation may still run
Rank(l) ==
    2 * AttemptsLeft(l)
    + (CASE l.pc = "idle" -> 2 [] l.pc = "request" -> 1 [] OTHER -> 0)

\* C16: every block of an invocation strictly lowers a natural-number rank
\* that starts at 2 * (3 + 3 * 9) + 2, so an invocation whose attempts each
\* return or raise ends after at most 3 attempts on the fast path and 3 for
\* each of the 9 requests of the full flow; the fast path and the full flow
\* are each entered at most once, and an invocation that ended has a response.
C16_BoundedTermination ==
    [][\A i \in Invocations :
         BlockOf(i)
         => /\ Rank(inv'[i]) < Rank(inv[i])
            /\ AttemptsLeft(inv'[i]) >= 0
            /\ inv'[i].attempt <= ATTEMPTS
            /\ inv'[i].req_num <= LAST_REQ
            /\ inv'[i].fasts <= 1
            /\ inv'[i].flows <= 1
            /\ inv'[i].pc \in {"request", "sleep", "done"}
            /\ inv'[i].pc = "done"
               => inv'[i].response # None /\ inv'[i].outstanding = {}]_vars

\* an invocation went through the fast path and all 9 requests and ended
C16_Witness ==
    \E i \in Invocations :
        /\ inv[i].pc = "done"
        /\ inv[i].fasts = 1
        /\ inv[i].flows = 1
        /\ inv[i].req_num = LAST_REQ
        /\ inv[i].response # None

\* C17: get_session leaves the cache file as it is and changes no map but
\* its own instance's, from which it removes at most the record it looked up;
\* the file changes only in a save_session, and a SessionCache constructed
\* from a readable file holds every record of the file, expired ones too.
C17_GetNeverWrites ==
    [][/\ file' # file => \E i \in Invocations : call'[i].op = "save"
       /\ \A i \in Invocations :
            /\ call'[i].op = "get"
               => /\ file' = file
                  /\ \A j \in Invocations \ {i} : sessions'[j] = sessions[j]
            /\ CallStep(i, "get")
               => LET key == StoreKey(call'[i].store) IN
                  /\ sessions'[i] \in {sessions[i], DelItem(sessions[i], key)}
                  /\ call'[i].log = "Cached session expired"
                     => key \notin DOMAIN sessions'[i]
            /\ (CallStep(i, "init") /\ call'[i].read = "ok" /\ file.kind = "json")
               => sessions'[i] = file.doc]_vars

\* get_session has removed an expired record from the map and the file still
\* holds an expired record under that key
C17_Witness ==
    \E i \in Invocations :
        LET key == StoreKey(call[i].store) IN
        /\ call[i].op = "get"
        /\ call[i].log = "Cached session expired"
        /\ key \notin DOMAIN sessions[i]
        /\ file.kind = "json"
        /\ key \in DOMAIN file.doc
        /\ Age(file.doc[key], now) >= TTL

\* C18: no block of the fast path changes the cache file, the invocation's
\* map or the record it was given, whether the request succeeds or fails;
\* and an invocation that arrives and reads a file holding a record of age
\* below 1800 seconds takes the fast path with exactly that record, so a
\* record whose use failed is used again until a save replaces it or it
\* expires.
C18_FastPathReadOnly ==
    [][\A i \in Invocations :
         LET key == StoreKey(STORE_ID) IN
         /\ (BlockOf(i) /\ inv[i].phase = "fast")
            => /\ file' = file
               /\ sessions'[i] = sessions[i]
               /\ cached_session'[i] = cached_session[i]
               /\ call'[i] = call[i]
         /\ (BlockOf(i) /\ inv[i].pc = "idle"
               /\ inv'[i].load_log = "Loaded cached sessions"
               /\ key \in DOMAIN file.doc)
            => IF Age(file.doc[key], now) < TTL
               THEN /\ inv'[i].phase = "fast" /\ inv'[i].fasts = 1
                    /\ cached_session'[i] = file.doc[key]
                    /\ file' = file
               ELSE inv'[i].phase = "full" /\ inv'[i].fasts = 0]_vars

\* the fast path of one invocation failed with a record that is still in the
\* file, nothing was saved, and another invocation is on the fast path with
\* the same record
C18_Witness ==
    \E i, j \in Invocations :
        LET key == StoreKey(STORE_ID) IN
        /\ i # j
        /\ inv[i].pc = "done" /\ inv[i].fasts = 1 /\ inv[i].flows = 1
        /\ call[i].op = "get" /\ call[j].op = "get"
        /\ file.kind = "json" /\ key \in DOMAIN file.doc
        /\ file.doc[key] = cached_session[i]
        /\ inv[j].phase = "fast" /\ inv[j].pc = "request"
        /\ cached_session[j] = cached_session[i]

\* C19: worldpay_auth_with_cache is never called with use_cache=False and
\* the full flow never runs twice; an invocation that ended either got a
\* (status, message) pair and answered 200 with success true and that pair,
\* also when the status is "error", or ended by an exception raised before
\* any flow started, and no response carries success false.
C19_NeverNone ==
    \A i \in Invocations :
        /\ inv[i].use_cache
        /\ inv[i].flows <= 1
        /\ inv[i].pc = "done"
           => IF inv[i].result = None
              THEN /\ inv[i].fasts = 0 /\ inv[i].flows = 0
                   /\ inv[i].response.code \in {400, 500}
                   /\ "success" \notin DOMAIN inv[i].response
              ELSE /\ inv[i].result.status \in {"approved", "declined", "error"}
                   /\ inv[i].response =
                          [code |-> 200, success |-> TRUE,
                           status |-> inv[i].result.status,
                           message |-> inv[i].result.message]

\* a flow that ended with an error status was answered 200 with success true
C19_Witness ==
    \E i \in Invocations :
        /\ inv[i].pc = "done"
        /\ inv[i].flows = 1
        /\ inv[i].result # None
        /\ inv[i].result.status = "error"
        /\ inv[i].response.code = 200
        /\ inv[i].response.success

\* C20: a call with use_cache=False never calls get_session, holds no cached
\* record and never enters the fast path, whatever the file holds; it still
\* constructs its SessionCache from the file and starts the full flow at
\* request 1, and a full flow that reaches request 9 has saved its record
\* into that map and rewritten the file from it.
C20_NoCacheStillLoadsAndSaves ==
    [][\A i \in Invocations :
         LET key == StoreKey(STORE_ID) IN
         (BlockOf(i) /\ ~inv'[i].use_cache)
         => /\ inv'[i].fasts = 0 /\ inv'[i].phase # "fast"
            /\ call'[i].op # "get"
            /\ cached_session'[i] = None
            /\ inv[i].pc = "idle"
               => /\ call'[i].op = "init"
                  /\ sessions'[i] = LoadCache(file, call'[i].read)
                  /\ inv'[i].load_log = LoadLog(file, call'[i].read)
                  /\ inv'[i].phase = "full" /\ inv'[i].req_num = 1
                  /\ file' = file
            /\ inv'[i].req_num = LAST_REQ
               => /\ call'[i].op = "save"
                  /\ key \in DOMAIN sessions'[i]
                  /\ sessions'[i][key].transaction_id = inv'[i].transaction_id
            /\ (SaveStep(i) /\ call'[i].write = "ok")
               => file' = Json(sessions'[i])]_vars

\* a call with use_cache=False loaded the file, made no fast-path request
\* and its full flow wrote its record to the file
C20_Witness ==
    \E i \in Invocations :
        LET key == StoreKey(STORE_ID) IN
        /\ ~inv[i].use_cache
        /\ inv[i].load_log = "Loaded cached sessions"
        /\ inv[i].fasts = 0
        /\ call[i].op = "save" /\ call[i].write = "ok"
        /\ file = Json(sessions[i])
        /\ file.doc[key].transaction_id = TxFor(i)

\* C21: get_session gives a record without a timestamp field the age of a
\* record saved at time 0, which at any clock value of 1800 or more is an
\* expired one: the call returns None, prints that the session expired and
\* removes exactly that record from the instance's map.
C21_NoTimestampExpired ==
    [][\A i \in Invocations :
         LET key == StoreKey(call'[i].store) IN
         (/\ CallStep(i, "get")
          /\ key \in DOMAIN sessions[i]
          /\ "timestamp" \notin DOMAIN sessions[i][key])
         => /\ (cached_session'[i] = None) <=> (now - 0 >= TTL)
            /\ cached_session'[i] = None
            /\ call'[i].log = "Cached session expired"
            /\ sessions'[i] = DelItem(sessions[i], key)
            /\ key \notin DOMAIN sessions'[i]]_vars

\* get_session has removed a record that the file holds without a timestamp
C21_Witness ==
    \E i \in Invocations :
        LET key == StoreKey(call[i].store) IN
        /\ call[i].op = "get"
        /\ call[i].log = "Cached session expired"
        /\ cached_session[i] = None
        /\ key \notin DOMAIN sessions[i]
        /\ file.kind = "json"
        /\ key \in DOMAIN file.doc
        /\ "timestamp" \notin DOMAIN file.doc[key]

\* C22: a wrapper configured with attempts <= 0 never calls func, never
\* sleeps and never returns a value; its call ends at the final raise, whose
\* operand is the configured tuple of exception classes and not an exception
\* instance, so the raise statement fails with a TypeError.
C22_NoAttemptsRaisesTuple ==
    wrapper.pc # "none" /\ wrapper.attempts <= 0
    => /\ wrapper.invoked = 0
       /\ wrapper.attempt = 0
       /\ wrapper.slept = <<>>
       /\ wrapper.ret = None
       /\ wrapper.pc \in {"start", "raised"}
       /\ wrapper.last_exception = [classes |-> wrapper.exceptions]
       /\ wrapper.pc = "raised"
          => wrapper.raised =
                 [kind |-> "TypeError",
                  operand |-> [classes |-> wrapper.exceptions]]

\* a call with a negative attempts ended at the final raise
C22_Witness ==
    /\ wrapper.pc = "raised"
    /\ wrapper.attempts < 0
    /\ wrapper.invoked = 0
    /\ wrapper.raised.kind = "TypeError"

====
